---- MODULE Spec2Model ----
(***************************************************************************)
(* A model of mydiff (src/mydiff/__init__.py): the metadata model, the     *)
(* value ordering, the schema differ, the merge comparison of row data,    *)
(* the statement renderer and the generator __compare that sequences them. *)
(*                                                                         *)
(* Statements are kept as records of their clauses instead of text, so     *)
(* that the clauses, their order and their operands can be inspected.      *)
(***************************************************************************)
EXTENDS Integers, Sequences, FiniteSets, TLC

VARIABLES db1, db2, pc, ti, tj, out, gen1, gen2, row1, row2, last_sort, i, ret, stopped, err

vars == <<db1, db2, pc, ti, tj, out, gen1, gen2, row1, row2, last_sort, i, ret, stopped, err>>

(***************************************************************************)
(* Bounds of the model and constants of the program.                       *)
(***************************************************************************)
\* range(10) of compare_data's loop
IterCap == 10
\* primary-key values of the small row sets are drawn from 1..MaxKey
MaxKey == 2
\* primary-key values of the long row sets are drawn from 1..MaxRows
MaxRows == 11

(***************************************************************************)
(* Sequence helpers.                                                       *)
(***************************************************************************)
Range(s) == {s[k] : k \in 1..Len(s)}

RECURSIVE Concat(_)
Concat(ss) == IF ss = <<>> THEN <<>> ELSE Head(ss) \o Concat(Tail(ss))

RECURSIVE SeqsOf(_)
\* every ordering of the finite set S as a sequence without repetition
SeqsOf(S) == IF S = {} THEN {<<>>}
             ELSE UNION {{<<x>> \o s : s \in SeqsOf(S \ {x})} : x \in S}

RECURSIVE Ascending(_)
\* the elements of a finite set of integers in ascending order
Ascending(S) == IF S = {} THEN <<>>
                ELSE LET m == CHOOSE x \in S : \A y \in S : x <= y
                     IN <<m>> \o Ascending(S \ {m})

(***************************************************************************)
(* Values as the driver hands them over: SQL NULL is Python's None, an     *)
(* integer column gives an int, a varchar/text column a str.  A str is     *)
(* represented by its rank v in Python's string order.                     *)
(***************************************************************************)
None == [t |-> "NoneType", v |-> 0]
IntV(n) == [t |-> "int", v |-> n]
StrV(n) == [t |-> "str", v |-> n]

(***************************************************************************)
(* Metadata model.                                                         *)
(***************************************************************************)
\* a native type string such as int(11), varchar(32), text: base and argument
DbType(base, len) == [base |-> base, len |-> len]

\* Column.__init__
Column(name, key, auto_increment, nullable, dbtype) ==
    [name |-> name, key |-> key, pk |-> (key = "PRI"), unique |-> (key = "UNI"),
     auto_increment |-> auto_increment, nullable |-> nullable, dbtype |-> dbtype]

\* KeyPart.__init__
KeyPart(name, seq, colname) == [name |-> name, seq |-> seq, colname |-> colname]

\* KeyPart.compare
KeyPartCompare(self, other) ==
    /\ self.name = other.name
    /\ self.seq = other.seq
    /\ self.colname = other.colname

\* Table.column over a column list: TRUE when the lookup raises NotFoundException
ColumnNotFound(columns, name) == \A k \in 1..Len(columns) : columns[k].name # name

\* Table.column over a column list: the first column of that name
ColumnOf(columns, name) ==
    columns[CHOOSE k \in 1..Len(columns) :
               /\ columns[k].name = name
               /\ \A j \in 1..(k - 1) : columns[j].name # name]

\* the kind table of Key.__init__
KindOf(colkey) == CASE colkey = "PRI" -> "primary"
                    [] colkey = "UNI" -> "unique"
                    [] colkey = "MUL" -> "multiple"

\* Key.__init__: name and kind come from the first part
Key(columns, parts) ==
    [name |-> parts[1].name,
     parts |-> parts,
     kind |-> KindOf(ColumnOf(columns, parts[1].colname).key),
     primary |-> (KindOf(ColumnOf(columns, parts[1].colname).key) = "primary")]

\* Key.compare
KeyCompare(self, other) ==
    IF self.kind # other.kind \/ Len(self.parts) # Len(other.parts) THEN FALSE
    ELSE \A k \in 1..Len(self.parts) : KeyPartCompare(self.parts[k], other.parts[k])

\* the grouping of key parts by index name in Table.__init__ (first-seen order)
RECURSIVE KeyNames(_)
KeyNames(parts) ==
    IF parts = <<>> THEN <<>>
    ELSE LET front == KeyNames(SubSeq(parts, 1, Len(parts) - 1))
             n == parts[Len(parts)].name
         IN IF n \in Range(front) THEN front ELSE Append(front, n)

PartsNamed(parts, n) == SelectSeq(parts, LAMBDA p : p.name = n)

\* Table.__init__: columns from describe, keys from show keys, pks derived
Table(name, columns, parts) ==
    [name |-> name,
     columns |-> columns,
     keys |-> [k \in 1..Len(KeyNames(parts)) |->
                  Key(columns, PartsNamed(parts, KeyNames(parts)[k]))],
     pks |-> SelectSeq(columns, LAMBDA c : c.pk)]

\* Table.column
TableColumnNotFound(t, name) == ColumnNotFound(t.columns, name)
TableColumn(t, name) == ColumnOf(t.columns, name)

\* Table.key
TableKeyNotFound(t, name) == \A k \in 1..Len(t.keys) : t.keys[k].name # name
TableKey(t, name) ==
    t.keys[CHOOSE k \in 1..Len(t.keys) :
              /\ t.keys[k].name = name
              /\ \A j \in 1..(k - 1) : t.keys[j].name # name]

\* Database.__init__: the table names, a Table for each, and the connection,
\* here the rows the server returns for each table's ordered select
Database(tables, rowsOf) ==
    [tablenames |-> [k \in 1..Len(tables) |-> tables[k].name],
     tables |-> tables,
     conn |-> rowsOf]

\* Database.table
DbTableNotFound(db, name) == \A k \in 1..Len(db.tables) : db.tables[k].name # name
DbTable(db, name) ==
    db.tables[CHOOSE k \in 1..Len(db.tables) :
                 /\ db.tables[k].name = name
                 /\ \A j \in 1..(k - 1) : db.tables[j].name # name]

\* Row.__init__
Row(table, data) == [table |-> table, data |-> data]

\* Row.dbtype (through Row.md)
RowDbtype(row, colname) == ColumnOf(row.table.columns, colname).dbtype

\* Table.rows: the rows of the select, in the order the server returns them
TableRows(db, t) == [k \in 1..Len(db.conn[t.name]) |-> Row(t, db.conn[t.name][k])]

(***************************************************************************)
(* Value ordering.                                                         *)
(***************************************************************************)
\* str.startswith on a native type string
StartsWith(dbtype, prefix) == dbtype.base = prefix

\* sort_val raises: an unsupported dbtype (Exception), or Python's ordering
\* comparison of None with anything or of an int with a str (TypeError)
SortValRaises(dbtype, val1, val2) ==
    IF StartsWith(dbtype, "int") \/ StartsWith(dbtype, "varchar")
    THEN val1.t = "NoneType" \/ val2.t = "NoneType" \/ val1.t # val2.t
    ELSE TRUE

\* sort_val where it returns
sort_val(dbtype, val1, val2) ==
    IF val2.v > val1.v THEN 1 ELSE IF val2.v = val1.v THEN 0 ELSE -1

RECURSIVE SortPksRaisesFrom(_, _, _)
\* sort_pks raises at or after primary-key column k: row2's table has no k-th
\* primary-key column (IndexError), a value is missing (KeyError), or sort_val raises
SortPksRaisesFrom(r1, r2, k) ==
    IF k > Len(r1.table.pks) THEN FALSE
    ELSE IF k > Len(r2.table.pks) THEN TRUE
    ELSE IF r2.table.pks[k].name \notin DOMAIN r2.data THEN TRUE
    ELSE IF SortValRaises(r1.table.pks[k].dbtype, r1.data[r1.table.pks[k].name],
                          r2.data[r2.table.pks[k].name]) THEN TRUE
    ELSE IF sort_val(r1.table.pks[k].dbtype, r1.data[r1.table.pks[k].name],
                     r2.data[r2.table.pks[k].name]) # 0 THEN FALSE
    ELSE SortPksRaisesFrom(r1, r2, k + 1)

SortPksRaises(r1, r2) == SortPksRaisesFrom(r1, r2, 1)

RECURSIVE sort_pks_from(_, _, _)
sort_pks_from(r1, r2, k) ==
    IF k > Len(r1.table.pks) THEN 0
    ELSE LET order == sort_val(r1.table.pks[k].dbtype, r1.data[r1.table.pks[k].name],
                               r2.data[r2.table.pks[k].name])
         IN IF order # 0 THEN order ELSE sort_pks_from(r1, r2, k + 1)

\* sort_pks where it returns: the first primary-key column that differs decides
sort_pks(r1, r2) == sort_pks_from(r1, r2, 1)

(***************************************************************************)
(* SqlRenderer.  A rendered statement is the record of its clauses.        *)
(***************************************************************************)
\* SqlRenderer.val (escape_item): NULL keyword, quoted string, plain number
render_val(v) ==
    [lit |-> IF v.t = "NoneType" THEN "NULL" ELSE IF v.t = "str" THEN "quoted" ELSE "plain",
     v |-> v.v]

\* SqlRenderer.pk_row: one term per primary-key column of the row's table
pk_row(row) ==
    [k \in 1..Len(row.table.pks) |->
        [col |-> row.table.pks[k].name, val |-> render_val(row.data[row.table.pks[k].name])]]

\* SqlRenderer.update
render_update(row, updates) ==
    [stmt |-> "update", table |-> row.table.name,
     sets |-> [k \in 1..Len(updates) |->
                  [col |-> updates[k], val |-> render_val(row.data[updates[k]])]],
     where |-> pk_row(row)]

\* SqlRenderer.insert
render_insert(row) ==
    [stmt |-> "insert into", table |-> row.table.name,
     cols |-> [k \in 1..Len(row.table.columns) |-> row.table.columns[k].name],
     vals |-> [k \in 1..Len(row.table.columns) |->
                  render_val(row.data[row.table.columns[k].name])]]

\* SqlRenderer.delete
render_delete(row) ==
    [stmt |-> "delete from", table |-> row.table.name, where |-> pk_row(row)]

\* SqlRenderer.drop_table
drop_table(t) == [stmt |-> "drop table", table |-> t.name]

\* SqlRenderer.column
render_column(c) ==
    [name |-> c.name, dbtype |-> c.dbtype, not_null |-> ~c.nullable,
     auto_increment |-> c.auto_increment]

\* SqlRenderer.keycols
keycols(k) == [n \in 1..Len(k.parts) |-> k.parts[n].colname]

\* SqlRenderer.key
render_key(k) == [kind |-> IF k.kind # "multiple" THEN k.kind ELSE "", cols |-> keycols(k)]

\* SqlRenderer.keymod
keymod(km) ==
    IF km.action = "drop"
    THEN IF km.key.primary
         THEN [clause |-> "drop primary key", name |-> "", def |-> <<>>]
         ELSE [clause |-> "drop key", name |-> km.key.name, def |-> <<>>]
    ELSE IF km.key.primary
         THEN [clause |-> "add key", name |-> "", def |-> <<render_key(km.key)>>]
         ELSE IF km.key.kind = "multiple"
              THEN [clause |-> "add index", name |-> km.key.name,
                    def |-> <<[kind |-> "", cols |-> keycols(km.key)]>>]
              ELSE [clause |-> "add constraint", name |-> km.key.name,
                    def |-> <<render_key(km.key)>>]

\* SqlRenderer.create_table: the columns, then the keys
create_table(t) ==
    [stmt |-> "create table", table |-> t.name,
     mods |-> [k \in 1..Len(t.columns) |-> render_column(t.columns[k])]
              \o [k \in 1..Len(t.keys) |-> render_key(t.keys[k])]]

\* faulty variant of alter_table: the additions are rendered before the drops
alter_table_AddsFirst(t, additions, changes, deletions, keymods) ==
    LET a == [k \in 1..Len(additions) |->
                 [clause |-> "add", name |-> additions[k].name,
                  def |-> <<render_column(additions[k])>>]]
        c == [k \in 1..Len(changes) |->
                 [clause |-> "change", name |-> changes[k].name,
                  def |-> <<render_column(changes[k])>>]]
        d == [k \in 1..Len(deletions) |->
                 [clause |-> "drop", name |-> deletions[k].name, def |-> <<>>]]
        keys == [k \in 1..Len(keymods) |-> keymod(keymods[k])]
    IN [stmt |-> "alter table", table |-> t.name, mods |-> Concat(<<a, c, d, keys>>)]

\* SqlRenderer.alter_table: deletions, changes, additions, key modifications
alter_table(t, additions, changes, deletions, keymods) ==
    LET a == [k \in 1..Len(additions) |->
                 [clause |-> "add", name |-> additions[k].name,
                  def |-> <<render_column(additions[k])>>]]
        c == [k \in 1..Len(changes) |->
                 [clause |-> "change", name |-> changes[k].name,
                  def |-> <<render_column(changes[k])>>]]
        d == [k \in 1..Len(deletions) |->
                 [clause |-> "drop", name |-> deletions[k].name, def |-> <<>>]]
        keys == [k \in 1..Len(keymods) |-> keymod(keymods[k])]
    IN [stmt |-> "alter table", table |-> t.name, mods |-> Concat(<<d, c, a, keys>>)]

\* the None a comparison returns when there is nothing to change
NoChange == [stmt |-> "None", table |-> ""]

(***************************************************************************)
(* Row comparison.                                                         *)
(***************************************************************************)
\* the columns of row2.data in iteration order (the cursor's column order)
DataCols(row) ==
    SelectSeq([k \in 1..Len(row.table.columns) |-> row.table.columns[k].name],
              LAMBDA c : c \in DOMAIN row.data)

\* compare_rows raises when sort_val raises on a column both rows hold
CompareRowsRaises(r1, r2) ==
    \E k \in 1..Len(DataCols(r2)) :
        LET col == DataCols(r2)[k]
        IN /\ col \in DOMAIN r1.data
           /\ SortValRaises(RowDbtype(r2, col), r1.data[col], r2.data[col])

\* faulty variant of Updates: every column of the target row is set
Updates_FullRow(r1, r2) == DataCols(r2)

\* the updates list of compare_rows
Updates(r1, r2) ==
    SelectSeq(DataCols(r2),
              LAMBDA col : \/ col \notin DOMAIN r1.data
                           \/ sort_val(RowDbtype(r2, col), r1.data[col], r2.data[col]) # 0)

\* compare_rows where it returns
compare_rows(r1, r2) ==
    IF Len(Updates(r1, r2)) = 0 THEN NoChange ELSE render_update(r2, Updates(r1, r2))

(***************************************************************************)
(* Schema comparison.                                                      *)
(***************************************************************************)
\* faulty variant of compare_columns: a change of nullability goes unnoticed
compare_columns_IgnoringNullable(c1, c2) ==
    IF c1.auto_increment # c2.auto_increment \/ c1.dbtype # c2.dbtype THEN <<c2>> ELSE <<>>

\* compare_columns: the target column when an attribute differs, else nothing
compare_columns(c1, c2) ==
    IF \/ c1.auto_increment # c2.auto_increment
       \/ c1.nullable # c2.nullable
       \/ c1.dbtype # c2.dbtype
    THEN <<c2>> ELSE <<>>

\* compare_table_keys, first loop: the modifications one source key gives
KeyModsOfSource(key1, t2) ==
    IF TableKeyNotFound(t2, key1.name) THEN <<[action |-> "drop", key |-> key1]>>
    ELSE IF ~KeyCompare(key1, TableKey(t2, key1.name))
         THEN <<[action |-> "drop", key |-> key1],
                [action |-> "add", key |-> TableKey(t2, key1.name)]>>
         ELSE <<>>

\* compare_table_keys
compare_table_keys(t1, t2) ==
    Concat([k \in 1..Len(t1.keys) |-> KeyModsOfSource(t1.keys[k], t2)])
    \o Concat([k \in 1..Len(t2.keys) |->
                  IF TableKeyNotFound(t1, t2.keys[k].name)
                  THEN <<[action |-> "add", key |-> t2.keys[k]]>> ELSE <<>>])

\* compare_tables: the changes list (source order, target columns)
Changes(t1, t2) ==
    Concat([k \in 1..Len(t1.columns) |->
               IF TableColumnNotFound(t2, t1.columns[k].name) THEN <<>>
               ELSE compare_columns(t1.columns[k], TableColumn(t2, t1.columns[k].name))])

\* compare_tables: the deletions list (source order)
Deletions(t1, t2) == SelectSeq(t1.columns, LAMBDA c : TableColumnNotFound(t2, c.name))

\* compare_tables: the additions list (target order)
Additions(t1, t2) == SelectSeq(t2.columns, LAMBDA c : TableColumnNotFound(t1, c.name))

\* compare_tables
compare_tables(t1, t2) ==
    IF /\ Len(Additions(t1, t2)) = 0
       /\ Len(Changes(t1, t2)) = 0
       /\ Len(Deletions(t1, t2)) = 0
       /\ Len(compare_table_keys(t1, t2)) = 0
    THEN NoChange
    ELSE alter_table(t2, Additions(t1, t2), Changes(t1, t2), Deletions(t1, t2),
                     compare_table_keys(t1, t2))

(***************************************************************************)
(* __compare and compare_data as a state machine.                          *)
(*   pc = "schema"        compare_databases, loop over db1.tablenames      *)
(*   pc = "create"        compare_databases, loop over db2.tablenames      *)
(*   pc = "data"          __compare, the nested loops over table names     *)
(*   pc = "compare_data"  inside compare_data for tables ti of db1, tj of  *)
(*                        db2                                              *)
(*   pc = "done"          the generator is exhausted                       *)
(*   pc = "raised"        an exception left __compare                      *)
(***************************************************************************)
\* faulty variant of Yield: None is yielded like a statement
Yield_Unfiltered(stream, change) == Append(stream, change)

\* __compare: a change is yielded unless it is None
Yield(stream, change) == IF change # NoChange THEN Append(stream, change) ELSE stream

RECURSIVE YieldAll(_, _)
\* __compare: the loop over the list compare_data returned
YieldAll(stream, changes) ==
    IF changes = <<>> THEN stream
    ELSE YieldAll(Yield(stream, Head(changes)), Tail(changes))

\* compare_databases, first loop: what one source table name yields
SourceTableChange(d1, d2, t1) ==
    IF DbTableNotFound(d2, t1) THEN drop_table(DbTable(d1, t1))
    ELSE compare_tables(DbTable(d1, t1), DbTable(d2, t1))

\* compare_databases, second loop: what one target table name yields
TargetTableChange(d1, d2, t2) ==
    IF DbTableNotFound(d1, t2) THEN create_table(DbTable(d2, t2)) ELSE NoChange

\* the tables compare_data is running on
T1 == DbTable(db1, db1.tablenames[ti])
T2 == DbTable(db2, db2.tablenames[tj])

\* nextrow: the next row of a generator at position g, or None (the empty sequence)
nextrow(rows, g) == IF g < Len(rows) THEN <<rows[g + 1]>> ELSE <<>>

\* the position of a generator after nextrow
advanced(rows, g) == IF g < Len(rows) THEN g + 1 ELSE g

\* faulty variant of AdvanceSource: the source cursor advances in every iteration
AdvanceSource_Always(ls) == TRUE

\* compare_data: the source cursor advances unless the last step was an insert
AdvanceSource(ls) == ls >= 0

\* compare_data: the target cursor advances unless the last step was a delete
AdvanceTarget(ls) == ls <= 0

\* compare_data: the ordering of the current rows (neither both None)
Ordering(r1, r2) ==
    IF r1 = <<>> THEN -1
    ELSE IF r2 = <<>> THEN 1
    ELSE sort_pks(r1[1], r2[1])

\* compare_data: the entry appended for the current rows
Entry(ls, r1, r2) ==
    IF ls = 0 THEN compare_rows(r1[1], r2[1])
    ELSE IF ls > 0 THEN render_delete(r1[1])
    ELSE render_insert(r2[1])

\* faulty variant of LoopRuns: the loop ends one iteration early
LoopRuns_OneShort(n) == n < IterCap - 1

\* compare_data: the loop condition of "for i in range(10)"
LoopRuns(n) == n < IterCap

\* the nested loops of __compare: the pair of indices after (a, b)
NextPair(a, b) == IF b < Len(db2.tablenames) THEN <<a, b + 1>> ELSE <<a + 1, 1>>

CompareDatabasesSource ==
    /\ pc = "schema"
    /\ ti <= Len(db1.tablenames)
    /\ out' = Yield(out, SourceTableChange(db1, db2, db1.tablenames[ti]))
    /\ ti' = ti + 1
    /\ UNCHANGED <<db1, db2, pc, tj, gen1, gen2, row1, row2, last_sort, i, ret, stopped, err>>

CompareDatabasesSourceEnd ==
    /\ pc = "schema"
    /\ ti > Len(db1.tablenames)
    /\ pc' = "create"
    /\ tj' = 1
    /\ UNCHANGED <<db1, db2, ti, out, gen1, gen2, row1, row2, last_sort, i, ret, stopped, err>>

CompareDatabasesTarget ==
    /\ pc = "create"
    /\ tj <= Len(db2.tablenames)
    /\ out' = Yield(out, TargetTableChange(db1, db2, db2.tablenames[tj]))
    /\ tj' = tj + 1
    /\ UNCHANGED <<db1, db2, pc, ti, gen1, gen2, row1, row2, last_sort, i, ret, stopped, err>>

CompareDatabasesTargetEnd ==
    /\ pc = "create"
    /\ tj > Len(db2.tablenames)
    /\ pc' = "data"
    /\ ti' = 1
    /\ tj' = 1
    /\ UNCHANGED <<db1, db2, out, gen1, gen2, row1, row2, last_sort, i, ret, stopped, err>>

\* one (t1, t2) iteration of __compare's nested loops: compare_data is entered
\* for equal names, its locals initialised
DataPair ==
    /\ pc = "data"
    /\ ti <= Len(db1.tablenames)
    /\ Len(db2.tablenames) > 0
    /\ IF db1.tablenames[ti] = db2.tablenames[tj]
       THEN /\ pc' = "compare_data"
            /\ gen1' = 0
            /\ gen2' = 0
            /\ last_sort' = 0
            /\ row1' = <<>>
            /\ row2' = <<>>
            /\ ret' = <<>>
            /\ i' = 0
            /\ stopped' = FALSE
            /\ UNCHANGED <<ti, tj>>
       ELSE /\ ti' = NextPair(ti, tj)[1]
            /\ tj' = NextPair(ti, tj)[2]
            /\ UNCHANGED <<pc, gen1, gen2, last_sort, row1, row2, ret, i, stopped>>
    /\ UNCHANGED <<db1, db2, out, err>>

\* one iteration of compare_data's loop
MergeStep ==
    /\ pc = "compare_data"
    /\ ~stopped
    /\ LoopRuns(i)
    /\ LET rows1 == TableRows(db1, T1)
           rows2 == TableRows(db2, T2)
           r1 == IF AdvanceSource(last_sort) THEN nextrow(rows1, gen1) ELSE row1
           r2 == IF AdvanceTarget(last_sort) THEN nextrow(rows2, gen2) ELSE row2
       IN /\ gen1' = IF AdvanceSource(last_sort) THEN advanced(rows1, gen1) ELSE gen1
          /\ gen2' = IF AdvanceTarget(last_sort) THEN advanced(rows2, gen2) ELSE gen2
          /\ row1' = r1
          /\ row2' = r2
          /\ i' = i + 1
          /\ IF r1 = <<>> /\ r2 = <<>>
             THEN /\ stopped' = TRUE
                  /\ UNCHANGED <<pc, last_sort, ret, err>>
             ELSE IF r1 # <<>> /\ r2 # <<>> /\ SortPksRaises(r1[1], r2[1])
             THEN /\ pc' = "raised"
                  /\ err' = "sort_pks"
                  /\ UNCHANGED <<last_sort, ret, stopped>>
             ELSE IF Ordering(r1, r2) = 0 /\ CompareRowsRaises(r1[1], r2[1])
             THEN /\ pc' = "raised"
                  /\ err' = "compare_rows"
                  /\ last_sort' = 0
                  /\ UNCHANGED <<ret, stopped>>
             ELSE /\ last_sort' = Ordering(r1, r2)
                  /\ ret' = Append(ret, Entry(Ordering(r1, r2), r1, r2))
                  /\ UNCHANGED <<pc, stopped, err>>
    /\ UNCHANGED <<db1, db2, ti, tj, out>>

\* compare_data returns ret and __compare yields its entries that are not None
CompareDataReturn ==
    /\ pc = "compare_data"
    /\ stopped \/ ~LoopRuns(i)
    /\ out' = YieldAll(out, ret)
    /\ pc' = "data"
    /\ ti' = NextPair(ti, tj)[1]
    /\ tj' = NextPair(ti, tj)[2]
    /\ UNCHANGED <<db1, db2, gen1, gen2, row1, row2, last_sort, i, ret, stopped, err>>

DataEnd ==
    /\ pc = "data"
    /\ ti > Len(db1.tablenames) \/ Len(db2.tablenames) = 0
    /\ pc' = "done"
    /\ UNCHANGED <<db1, db2, ti, tj, out, gen1, gen2, row1, row2, last_sort, i, ret, stopped, err>>

Next ==
    \/ CompareDatabasesSource
    \/ CompareDatabasesSourceEnd
    \/ CompareDatabasesTarget
    \/ CompareDatabasesTargetEnd
    \/ DataPair
    \/ MergeStep
    \/ CompareDataReturn
    \/ DataEnd

\* the state of __compare when its generator is first resumed on (s, t)
Start(s, t) ==
    /\ db1 = s
    /\ db2 = t
    /\ pc = "schema"
    /\ ti = 1
    /\ tj = 1
    /\ out = <<>>
    /\ gen1 = 0
    /\ gen2 = 0
    /\ row1 = <<>>
    /\ row2 = <<>>
    /\ last_sort = 0
    /\ i = 0
    /\ ret = <<>>
    /\ stopped = FALSE
    /\ err = ""

(***************************************************************************)
(* The databases a run starts from.  What the server holds is the          *)
(* environment of the program: every row has a value of the column's       *)
(* Python type for each column, NULL only in a nullable column, a unique   *)
(* primary key, and the rows of a select arrive in the server's order of   *)
(* the primary key: ascending for an integer key; for a varchar key the    *)
(* order is the column's collation, which need not be Python's string      *)
(* order nor the same on both servers.                                     *)
(***************************************************************************)
Int11 == DbType("int", 11)
Varchar32 == DbType("varchar", 32)
Varchar64 == DbType("varchar", 64)
Text == DbType("text", 0)

\* the Python value with rank n a column of this type holds
ValueOf(dbtype, n) == IF dbtype.base = "int" THEN IntV(n) ELSE StrV(n)

\* the values a column that is not part of the key takes in the model:
\* NULL or one value when nullable, one of two values otherwise
NonKeyValues(col) ==
    IF col.nullable THEN {None, ValueOf(col.dbtype, 1)}
    ELSE {ValueOf(col.dbtype, 1), ValueOf(col.dbtype, 2)}

\* the rows of table t whose primary key is the tuple key
RowData(t, key) ==
    LET names == {t.columns[k].name : k \in 1..Len(t.columns)}
        all == UNION {NonKeyValues(t.columns[k]) : k \in 1..Len(t.columns)}
                 \cup {ValueOf(t.pks[k].dbtype, key[k]) : k \in 1..Len(t.pks)}
        pkpos(c) == CHOOSE k \in 1..Len(t.pks) : t.pks[k].name = c
    IN {f \in [names -> all] :
          \A k \in 1..Len(t.columns) :
             LET c == t.columns[k]
             IN IF c.pk THEN f[c.name] = ValueOf(c.dbtype, key[pkpos(c.name)])
                ELSE f[c.name] \in NonKeyValues(c)}

RECURSIVE RowSeqsFor(_, _)
\* the row sequences of table t whose keys are, in order, those of keyseq
RowSeqsFor(t, keyseq) ==
    IF keyseq = <<>> THEN {<<>>}
    ELSE {<<d>> \o rest : d \in RowData(t, Head(keyseq)), rest \in RowSeqsFor(t, Tail(keyseq))}

\* the orders in which the server can return the single-column keys S of table t
KeyOrders(t, S) ==
    IF t.pks[1].dbtype.base = "int" THEN {[k \in 1..Cardinality(S) |-> <<Ascending(S)[k]>>]}
    ELSE {[k \in 1..Len(o) |-> <<o[k]>>] : o \in SeqsOf(S)}

\* every result of the ordered select on table t with keys among 1..MaxKey
SmallRows(t) ==
    UNION {UNION {RowSeqsFor(t, o) : o \in KeyOrders(t, S)} : S \in SUBSET (1..MaxKey)}

ColId(dbtype, ai) == Column("id", "PRI", ai, FALSE, dbtype)
ColName(dbtype, nullable) == Column("name", "", FALSE, nullable, dbtype)
ColX == Column("x", "", FALSE, TRUE, Int11)

\* T(id primary key, name [, x]) as the program sees it
DataTable(pktype, nametype, withX) ==
    Table("T",
          <<ColId(pktype, FALSE), ColName(nametype, FALSE)>> \o (IF withX THEN <<ColX>> ELSE <<>>),
          <<KeyPart("PRIMARY", 1, "id")>>)

\* a database holding the one table t with rows rs
OneTable(t, rs) == Database(<<t>>, [n \in {t.name} |-> rs])

\* small tables: an integer key with the column x on either, both or no side;
\* a varchar key; a text column
InitSmall ==
    \E shape \in {<<Int11, Varchar32, FALSE, FALSE>>, <<Int11, Varchar32, FALSE, TRUE>>,
                  <<Int11, Varchar32, TRUE, FALSE>>, <<Int11, Varchar32, TRUE, TRUE>>,
                  <<Varchar32, Varchar32, FALSE, FALSE>>, <<Int11, Text, FALSE, FALSE>>} :
      LET t1 == DataTable(shape[1], shape[2], shape[3])
          t2 == DataTable(shape[1], shape[2], shape[4])
      IN \E rs1 \in SmallRows(t1), rs2 \in SmallRows(t2) :
            Start(OneTable(t1, rs1), OneTable(t2, rs2))

\* the rows with keys lo..hi of T(id, name), every name being the string of rank n
LongRows(lo, hi, n) ==
    [k \in 1..(hi - lo + 1) |-> [c \in {"id", "name"} |->
                                    IF c = "id" THEN IntV(lo + k - 1) ELSE StrV(n)]]

\* long tables: the source holds the keys 1..hi1, the target the keys lo2..hi2,
\* both within 1..MaxRows
InitLong ==
    \E hi1 \in 0..MaxRows, lo2 \in 1..MaxRows, n \in {1, 2} :
      \E hi2 \in (lo2 - 1)..MaxRows :
        /\ hi2 < lo2 => lo2 = 1
        /\ Start(OneTable(DataTable(Int11, Varchar32, FALSE), LongRows(1, hi1, 1)),
                 OneTable(DataTable(Int11, Varchar32, FALSE), LongRows(lo2, hi2, n)))

\* T(id, sub, name) with the primary key (id, sub)
PairTable ==
    Table("T",
          <<ColId(Int11, FALSE), Column("sub", "PRI", FALSE, FALSE, Int11),
            ColName(Varchar32, FALSE)>>,
          <<KeyPart("PRIMARY", 1, "id"), KeyPart("PRIMARY", 2, "sub")>>)

\* the keys (id, sub) in the server's ascending order
PairKeys == <<<<1, 1>>, <<1, 2>>, <<2, 1>>, <<2, 2>>>>

\* the rows of PairTable with the keys chosen by keep, every name of rank n
PairRows(keep, n) ==
    LET ks == SelectSeq(PairKeys, LAMBDA k : k \in keep)
    IN [k \in 1..Len(ks) |-> [c \in {"id", "sub", "name"} |->
                                 IF c = "id" THEN IntV(ks[k][1])
                                 ELSE IF c = "sub" THEN IntV(ks[k][2]) ELSE StrV(n)]]

\* tables with a two-column primary key
InitPair ==
    \E keep1 \in SUBSET Range(PairKeys), keep2 \in SUBSET Range(PairKeys), n \in {1, 2} :
        Start(OneTable(PairTable, PairRows(keep1, 1)), OneTable(PairTable, PairRows(keep2, n)))

InitData == InitSmall \/ InitLong \/ InitPair

SpecData == InitData /\ [][Next]_vars

(***************************************************************************)
(* Vocabulary of the properties: what the two tables hold, stated on the   *)
(* rows themselves and not through the comparison functions.               *)
(***************************************************************************)
InCompareData == pc = "compare_data"

\* compare_data is about to return ret
Returning == pc = "compare_data" /\ (stopped \/ ~LoopRuns(i))

Rows1 == TableRows(db1, T1)
Rows2 == TableRows(db2, T2)

\* the primary-key values of a row
PkOf(row) == [k \in 1..Len(row.table.pks) |-> row.data[row.table.pks[k].name]]

KeysOf(rows) == {PkOf(rows[k]) : k \in 1..Len(rows)}

RowWithKey(rows, key) == rows[CHOOSE k \in 1..Len(rows) : PkOf(rows[k]) = key]

\* lexicographic order of key tuples by rank
KeyLess(a, b) ==
    \E k \in 1..Len(a) : a[k].v < b[k].v /\ \A j \in 1..(k - 1) : a[j].v = b[j].v

RECURSIVE KeysAscending(_)
KeysAscending(S) ==
    IF S = {} THEN <<>>
    ELSE LET m == CHOOSE x \in S : \A y \in S \ {x} : KeyLess(x, y)
         IN <<m>> \o KeysAscending(S \ {m})

\* a target column is absent from the source row or holds another value
RowsDiffer(r1, r2) ==
    \E c \in DOMAIN r2.data : c \notin DOMAIN r1.data \/ r1.data[c] # r2.data[c]

\* the keys, as literals, a statement names: the WHERE terms of a delete or an
\* update, the values of the primary-key columns of an insert
StmtKey(t, e) ==
    IF e.stmt = "insert into"
    THEN LET at == SelectSeq([k \in 1..Len(e.cols) |-> k],
                             LAMBDA k : \E n \in 1..Len(t.pks) : t.pks[n].name = e.cols[k])
         IN [k \in 1..Len(at) |-> e.vals[at[k]]]
    ELSE [k \in 1..Len(e.where) |-> e.where[k].val]

\* an entry of ret reduced to its kind and key
KindAndKey(t, e) == IF e.stmt = "None" THEN <<"None", <<>>>> ELSE <<e.stmt, StmtKey(t, e)>>

\* the entry the merge owes to one key
OwedFor(key) ==
    LET lits == [k \in 1..Len(key) |-> render_val(key[k])]
    IN IF key \notin KeysOf(Rows2) THEN <<"delete from", lits>>
       ELSE IF key \notin KeysOf(Rows1) THEN <<"insert into", lits>>
       ELSE IF RowsDiffer(RowWithKey(Rows1, key), RowWithKey(Rows2, key))
            THEN <<"update", lits>>
            ELSE <<"None", <<>>>>

\* one entry per key of either side, in ascending key order
Owed ==
    LET ks == KeysAscending(KeysOf(Rows1) \cup KeysOf(Rows2))
    IN [k \in 1..Len(ks) |-> OwedFor(ks[k])]

IsPrefix(a, b) == Len(a) <= Len(b) /\ a = SubSeq(b, 1, Len(a))

\* the rows arrive in ascending order of sort_pks, which makes the keys unique
ArrivesAscending(rows) ==
    \A k \in 1..(Len(rows) - 1) :
        /\ ~SortPksRaises(rows[k], rows[k + 1])
        /\ sort_pks(rows[k], rows[k + 1]) = 1

\* both tables define the same primary key over int/varchar columns
SamePrimaryKey ==
    /\ T1.pks = T2.pks
    /\ \A k \in 1..Len(T1.pks) : T1.pks[k].dbtype.base \in {"int", "varchar"}

\* the number of entries of ret that are statements
Statements(entries) == Len(SelectSeq(entries, LAMBDA e : e # NoChange))

\* the number of rows in which the two tables differ
Differences ==
    Cardinality({k \in KeysOf(Rows1) \cup KeysOf(Rows2) : OwedFor(k)[1] # "None"})

(***************************************************************************)
(* C7: for same-named tables with the same int/varchar primary key whose   *)
(* rows arrive ascending by sort_val with unique keys and that hold at     *)
(* most 10 distinct keys together, compare_data returns exactly one entry  *)
(* per key, in ascending key order: a DELETE for a source-only key, an     *)
(* INSERT for a target-only key, an UPDATE for a shared key whose rows     *)
(* differ and None for a shared key whose rows are equal.  While the loop  *)
(* runs, ret is a prefix of that list.                                     *)
(***************************************************************************)
C7_Pre ==
    /\ SamePrimaryKey
    /\ ArrivesAscending(Rows1)
    /\ ArrivesAscending(Rows2)
    /\ Cardinality(KeysOf(Rows1) \cup KeysOf(Rows2)) <= 10

AfterEqualStep ==
    /\ InCompareData
    /\ i > 0
    /\ last_sort = 0
    /\ row1 # <<>>
    /\ row2 # <<>>

C5_ChangedColumns ==
    LET names == [k \in 1..Len(row2[1].table.columns) |-> row2[1].table.columns[k].name]
    IN SelectSeq(names, LAMBDA c : /\ c \in DOMAIN row2[1].data
                                   /\ \/ c \notin DOMAIN row1[1].data
                                      \/ row1[1].data[c] # row2[1].data[c])

C5_Owed ==
    IF C5_ChangedColumns = <<>> THEN NoChange
    ELSE [stmt |-> "update",
          table |-> row2[1].table.name,
          sets |-> [k \in 1..Len(C5_ChangedColumns) |->
                       [col |-> C5_ChangedColumns[k],
                        val |-> render_val(row2[1].data[C5_ChangedColumns[k]])]],
          where |-> [k \in 1..Len(row2[1].table.pks) |->
                        [col |-> row2[1].table.pks[k].name,
                         val |-> render_val(row2[1].data[row2[1].table.pks[k].name])]]]

OnSource(e) == e.stmt \in {"delete from", "update", "None"}
OnTarget(e) == e.stmt \in {"insert into", "update", "None"}

\* how many of the first n entries of ret have a source row, a target row as subject
SourceUsed(n) == Len(SelectSeq(SubSeq(ret, 1, n), OnSource))
TargetUsed(n) == Len(SelectSeq(SubSeq(ret, 1, n), OnTarget))

\* the n-th entry of ret is about the next unused row of the side it concerns
C10_Subjects ==
    LET rows1 == Rows1
        rows2 == Rows2
        used1 == [n \in 0..Len(ret) |-> SourceUsed(n)]
        used2 == [n \in 0..Len(ret) |-> TargetUsed(n)]
    IN /\ used1[Len(ret)] = IF row1 # <<>> /\ last_sort < 0 THEN gen1 - 1 ELSE gen1
       /\ used2[Len(ret)] = IF row2 # <<>> /\ last_sort > 0 THEN gen2 - 1 ELSE gen2
       /\ \A n \in 1..Len(ret) :
             IF ret[n].stmt = "delete from" THEN ret[n] = render_delete(rows1[used1[n]])
             ELSE IF ret[n].stmt = "insert into" THEN ret[n] = render_insert(rows2[used2[n]])
             ELSE ret[n] = compare_rows(rows1[used1[n]], rows2[used2[n]])

\* the cursor over rows moved from position g holding r to position g2 holding r2
Fetched(rows, g, g2, r2) ==
    IF g < Len(rows) THEN g2 = g + 1 /\ r2 = <<rows[g2]>> ELSE g2 = g /\ r2 = <<>>

C10_Step ==
    LET rows1 == Rows1
        rows2 == Rows2
    IN /\ gen1' \in {gen1, gen1 + 1}
       /\ gen2' \in {gen2, gen2 + 1}
       /\ (i > 0 /\ last_sort < 0) =>
             /\ row1' = row1
             /\ gen1' = gen1
             /\ Fetched(rows2, gen2, gen2', row2')
       /\ (i > 0 /\ last_sort > 0) =>
             /\ row2' = row2
             /\ gen2' = gen2
             /\ Fetched(rows1, gen1, gen1', row1')
       /\ (i = 0 \/ last_sort = 0) =>
             /\ Fetched(rows1, gen1, gen1', row1')
             /\ Fetched(rows2, gen2, gen2', row2')
       /\ (i > 0 /\ row1 = <<>>) => row1' = <<>>
       /\ (i > 0 /\ row2 = <<>>) => row2' = <<>>

C10_CursorProtocol == [][/\ pc = "compare_data" => C10_Subjects
     /\ (pc = "compare_data" /\ i' = i + 1) => C10_Step]_vars

\* a merge over a source that did not arrive in ascending order has made a
\* delete, an insert and an equal step and found both cursors exhausted
C10_Witness ==
    /\ InCompareData
    /\ stopped
    /\ ~ArrivesAscending(Rows1)
    /\ {ret[k].stmt : k \in 1..Len(ret)} = {"delete from", "insert into", "update"}

(***************************************************************************)
(* C2: the loop of compare_data stops only when both cursors are           *)
(* exhausted, and tables differing in N rows give N statements, also for N *)
(* above 10.  Stated for rows that arrive in ascending key order.          *)
(***************************************************************************)
C2_OneStatementPerDifference ==
    (Returning /\ SamePrimaryKey /\ ArrivesAscending(Rows1) /\ ArrivesAscending(Rows2)) =>
        /\ gen1 = Len(Rows1)
        /\ gen2 = Len(Rows2)
        /\ Statements(ret) = Differences

(***************************************************************************)
(* C4: with the same schema on both sides and a target that holds the      *)
(* source's rows and one more row, at any position in key order, the       *)
(* output is the INSERT of that row and nothing else; with the sides       *)
(* exchanged it is the DELETE by that row's primary key and nothing else.  *)
(* Stated for rows that arrive in ascending key order.                     *)
(***************************************************************************)
\* the sequence s without its k-th element
Without(s, k) == SubSeq(s, 1, k - 1) \o SubSeq(s, k + 1, Len(s))

\* the single tables of the two databases and their rows
Only1 == db1.tables[1]
Only2 == db2.tables[1]

C4_SameSchema ==
    /\ Len(db1.tables) = 1
    /\ db1.tables = db2.tables
    /\ ArrivesAscending(TableRows(db1, Only1))
    /\ ArrivesAscending(TableRows(db2, Only2))

C4_SingleInsertOrDelete ==
    (pc = "done" /\ C4_SameSchema) =>
        /\ \A k \in 1..Len(TableRows(db2, Only2)) :
              TableRows(db1, Only1) = Without(TableRows(db2, Only2), k) =>
                  out = <<render_insert(TableRows(db2, Only2)[k])>>
        /\ \A k \in 1..Len(TableRows(db1, Only1)) :
              TableRows(db2, Only2) = Without(TableRows(db1, Only1), k) =>
                  out = <<render_delete(TableRows(db1, Only1)[k])>>

(***************************************************************************)
(* C3: comparing a database with itself yields no statement and no error,  *)
(* whatever the number of rows and whatever the values, NULL included.     *)
(* Stated for tables all of whose columns are of int or varchar type.      *)
(***************************************************************************)
C3_Supported(db) ==
    \A k \in 1..Len(db.tables) : \A n \in 1..Len(db.tables[k].columns) :
        db.tables[k].columns[n].dbtype.base \in {"int", "varchar"}

C3_SelfCompareIsEmpty ==
    (db1 = db2 /\ C3_Supported(db1)) =>
        /\ pc # "raised"
        /\ pc = "done" => out = <<>>

(***************************************************************************)
(* Schemas a run starts from.  A table is declared by its columns and its  *)
(* indexes; describe and show keys report it the way the server does.      *)
(***************************************************************************)
ColSpec(name, auto_increment, nullable, dbtype) ==
    [name |-> name, auto_increment |-> auto_increment, nullable |-> nullable, dbtype |-> dbtype]

IndexSpec(name, unique, cols) == [name |-> name, unique |-> unique, cols |-> cols]

\* the Key field of describe: PRI for a primary-key column, UNI for the column
\* of a single-column unique index, MUL for the first column of another index
DescribeKey(colname, indexes) ==
    IF \E k \in 1..Len(indexes) : indexes[k].name = "PRIMARY" /\ colname \in Range(indexes[k].cols)
    THEN "PRI"
    ELSE IF \E k \in 1..Len(indexes) : indexes[k].unique /\ indexes[k].cols = <<colname>>
    THEN "UNI"
    ELSE IF \E k \in 1..Len(indexes) : indexes[k].cols[1] = colname
    THEN "MUL"
    ELSE ""

\* the rows of show keys: one per index and column, by index then position
ShowKeys(indexes) ==
    Concat([k \in 1..Len(indexes) |->
               [n \in 1..Len(indexes[k].cols) |-> KeyPart(indexes[k].name, n, indexes[k].cols[n])]])

\* the Table built for a declared table T
Declared(colspecs, indexes) ==
    Table("T",
          [k \in 1..Len(colspecs) |->
              Column(colspecs[k].name, DescribeKey(colspecs[k].name, indexes),
                     colspecs[k].auto_increment, colspecs[k].nullable, colspecs[k].dbtype)],
          ShowKeys(indexes))

Reverse(q) == [k \in 1..Len(q) |-> q[Len(q) + 1 - k]]

\* the optional element of a declaration: nothing or one thing
Opt(S) == {<<>>} \cup {<<x>> : x \in S}

PrimaryId == IndexSpec("PRIMARY", TRUE, <<"id">>)

\* column lists over id, name and x in either order, under the primary key (id)
ColumnChoices ==
    LET lists == {<<ColSpec("id", ai, FALSE, Int11)>> \o n \o x :
                     ai \in BOOLEAN,
                     n \in Opt({ColSpec("name", FALSE, TRUE, Varchar32),
                                ColSpec("name", FALSE, TRUE, Varchar64),
                                ColSpec("name", FALSE, FALSE, Varchar32)}),
                     x \in Opt({ColSpec("x", FALSE, TRUE, Int11)})}
    IN {Declared(l, <<PrimaryId>>) : l \in lists}
         \cup {Declared(Reverse(l), <<PrimaryId>>) : l \in lists}

\* index lists over the fixed columns id, name, x
IndexChoices ==
    LET cols == <<ColSpec("id", FALSE, FALSE, Int11), ColSpec("name", FALSE, TRUE, Varchar32),
                  ColSpec("x", FALSE, TRUE, Int11)>>
    IN {Declared(cols, p \o a \o b) :
           p \in Opt({PrimaryId, IndexSpec("PRIMARY", TRUE, <<"id", "x">>)}),
           a \in Opt({IndexSpec("a", FALSE, <<"name">>), IndexSpec("a", TRUE, <<"name">>),
                      IndexSpec("a", FALSE, <<"name", "x">>)}),
           b \in Opt({IndexSpec("b", FALSE, <<"x">>), IndexSpec("b", FALSE, <<"x", "name">>)})}

\* columns and the indexes on them together
MixedChoices ==
    UNION {UNION {{Declared(<<ColSpec("id", ai, FALSE, Int11)>> \o n \o x, <<PrimaryId>> \o a \o b) :
                      a \in IF n = <<>> THEN {<<>>}
                            ELSE Opt({IndexSpec("a", FALSE, <<"name">>),
                                      IndexSpec("a", TRUE, <<"name">>)}),
                      b \in IF x = <<>> THEN {<<>>} ELSE Opt({IndexSpec("b", FALSE, <<"x">>)})} :
                     n \in Opt({ColSpec("name", FALSE, TRUE, Varchar32)}),
                     x \in Opt({ColSpec("x", FALSE, TRUE, Int11)})} : ai \in BOOLEAN}

\* two databases holding an empty table T each
InitSchema ==
    \E choices \in {ColumnChoices, IndexChoices, MixedChoices} :
      \E t1 \in choices, t2 \in choices :
        Start(OneTable(t1, <<>>), OneTable(t2, <<>>))

SpecSchema == InitSchema /\ [][Next]_vars

(***************************************************************************)
(* Vocabulary of the schema properties, stated on the two tables.          *)
(***************************************************************************)
\* compare_databases has just handled the one table both databases hold
TablePairCompared ==
    /\ pc = "schema"
    /\ ti = 2
    /\ Len(db1.tables) = 1
    /\ Len(db2.tables) = 1
    /\ Only1.name = Only2.name

ColNames(t) == [k \in 1..Len(t.columns) |-> t.columns[k].name]

Named(t, n) == t.columns[CHOOSE k \in 1..Len(t.columns) : t.columns[k].name = n]

OnlyOnTarget == Range(ColNames(Only2)) \ Range(ColNames(Only1))
OnlyOnSource == Range(ColNames(Only1)) \ Range(ColNames(Only2))

\* on both sides with another nullability, native type or auto-increment flag
ChangedOnTarget ==
    {n \in Range(ColNames(Only1)) \cap Range(ColNames(Only2)) :
        \/ Named(Only1, n).nullable # Named(Only2, n).nullable
        \/ Named(Only1, n).dbtype # Named(Only2, n).dbtype
        \/ Named(Only1, n).auto_increment # Named(Only2, n).auto_increment}

\* what compare distinguishes in a key: kind, and position and column of each part
KeySignature(k) == <<k.kind, [n \in 1..Len(k.parts) |-> <<k.parts[n].seq, k.parts[n].colname>>]>>

KeySignatures(t) == {<<t.keys[k].name, KeySignature(t.keys[k])>> : k \in 1..Len(t.keys)}

KeyDelta == KeySignatures(Only1) # KeySignatures(Only2)

\* the clauses of one kind in a statement, in order
Clauses(st, kind) == SelectSeq(st.mods, LAMBDA m : m.clause = kind)

ClauseNames(st, kind) == [k \in 1..Len(Clauses(st, kind)) |-> Clauses(st, kind)[k].name]

\* the definition an ADD or CHANGE clause must carry for target column n
TargetDefinition(n) ==
    [name |-> n, dbtype |-> Named(Only2, n).dbtype, not_null |-> ~Named(Only2, n).nullable,
     auto_increment |-> Named(Only2, n).auto_increment]

(***************************************************************************)
(* C6: for a pair of same-named tables compare_tables gives exactly one    *)
(* ALTER TABLE when a column or key delta exists and nothing otherwise;    *)
(* the statement has an ADD clause for exactly the target-only columns, a  *)
(* DROP clause for exactly the source-only columns and a CHANGE clause for *)
(* exactly the columns on both sides whose nullability, native type or     *)
(* auto-increment flag differs; a column on both sides with the three      *)
(* attributes equal has no clause.                                         *)
(***************************************************************************)
C6_ExactlyOnce(st, kind, names) ==
    /\ Range(ClauseNames(st, kind)) = names
    /\ Len(Clauses(st, kind)) = Cardinality(names)

KeyClauseKinds == {"drop primary key", "drop key", "add key", "add index", "add constraint"}

C8_ClauseOrder ==
    LET st == out[1]
        keyclauses == SelectSeq(st.mods, LAMBDA m : m.clause \in KeyClauseKinds)
        computed == compare_table_keys(Only1, Only2)
    IN /\ st.mods = Concat(<<Clauses(st, "drop"), Clauses(st, "change"), Clauses(st, "add"),
                             keyclauses>>)
       /\ ClauseNames(st, "drop") = SelectSeq(ColNames(Only1), LAMBDA n : n \in OnlyOnSource)
       /\ ClauseNames(st, "change") = SelectSeq(ColNames(Only1), LAMBDA n : n \in ChangedOnTarget)
       /\ ClauseNames(st, "add") = SelectSeq(ColNames(Only2), LAMBDA n : n \in OnlyOnTarget)
       /\ keyclauses = [k \in 1..Len(computed) |-> keymod(computed[k])]

\* C8 as claimed: ... and among the key modifications every key drop precedes
\* every key add
C8_EveryKeyDropBeforeEveryAdd ==
    (TablePairCompared /\ Len(out) = 1) =>
        /\ C8_ClauseOrder
        /\ LET computed == compare_table_keys(Only1, Only2)
           IN \A p \in 1..Len(computed), q \in 1..Len(computed) :
                 (computed[p].action = "drop" /\ computed[q].action = "add") => p < q

\* C8 as amended: ... and among the key modifications the drop of a changed
\* key is immediately followed by the add of the target's key of that name,
\* and the add of a key only the target has comes after every key drop
C8_KeyDropBeforeItsAdd ==
    (TablePairCompared /\ Len(out) = 1) =>
        /\ C8_ClauseOrder
        /\ LET computed == compare_table_keys(Only1, Only2)
           IN \A q \in 1..Len(computed) :
                 computed[q].action = "add" =>
                    IF \E k \in 1..Len(Only1.keys) : Only1.keys[k].name = computed[q].key.name
                    THEN /\ q > 1
                         /\ computed[q - 1].action = "drop"
                         /\ computed[q - 1].key.name = computed[q].key.name
                    ELSE \A p \in 1..Len(computed) : computed[p].action = "drop" => p < q

\* an ALTER TABLE with a column drop and a column change in which the add of a
\* changed key stands before the drop of another key
C8_Witness ==
    /\ TablePairCompared
    /\ Len(out) = 1
    /\ Len(Clauses(out[1], "drop")) > 0
    /\ Len(Clauses(out[1], "change")) > 0
    /\ LET computed == compare_table_keys(Only1, Only2)
       IN \E p \in 1..Len(computed), q \in 1..Len(computed) :
             computed[p].action = "add" /\ computed[q].action = "drop" /\ p < q

(***************************************************************************)
(* Databases of several tables: T and U with rows, V without, each present *)
(* on the source, the target or both, in the order show tables gives.      *)
(***************************************************************************)
\* T or U as the program sees it: (id, name) or (id, name, x)
NamedTable(name, withX) ==
    Table(name,
          <<ColId(Int11, FALSE), ColName(Varchar32, FALSE)>> \o (IF withX THEN <<ColX>> ELSE <<>>),
          <<KeyPart("PRIMARY", 1, "id")>>)

\* the rows with keys 1..hi of such a table, every name of rank n and every x 1
FewRows(t, hi, n) ==
    [k \in 1..hi |-> [c \in Range([j \in 1..Len(t.columns) |-> t.columns[j].name]) |->
                         IF c = "id" THEN IntV(k) ELSE IF c = "name" THEN StrV(n) ELSE IntV(1)]]

\* a table with its rows, or no table
TableChoices(name, shapes, his, ns) ==
    {<<>>} \cup {<<[table |-> NamedTable(name, w), rows |-> FewRows(NamedTable(name, w), hi, n)]>> :
                    w \in shapes, hi \in his, n \in ns}

DatabaseOf(choice) ==
    Database([k \in 1..Len(choice) |-> choice[k].table],
             [n \in {choice[k].table.name : k \in 1..Len(choice)} |->
                 (CHOOSE c \in Range(choice) : c.table.name = n).rows])

Init ==
    \E s1 \in TableChoices("T", BOOLEAN, 0..2, {1}), s2 \in TableChoices("U", {FALSE}, 0..1, {1}),
       s3 \in TableChoices("V", {FALSE}, {0}, {1}),
       t1 \in TableChoices("T", BOOLEAN, 0..2, {1, 2}), t2 \in TableChoices("U", {FALSE}, 0..1, {1, 2}),
       t3 \in TableChoices("V", {FALSE}, {0}, {1}) :
        Start(DatabaseOf(s1 \o s2 \o s3), DatabaseOf(t1 \o t2 \o t3))

Spec == Init /\ [][Next]_vars

(***************************************************************************)
(* C9: the stream __compare yields is, for any two databases: for each     *)
(* source table in source order a DROP TABLE if the target lacks it, else  *)
(* its ALTER TABLE if it has a schema delta; then a CREATE TABLE for each  *)
(* target-only table in target order; and only after all of these the      *)
(* INSERT, UPDATE and DELETE statements.  One DROP TABLE per source-only   *)
(* table, one CREATE TABLE per target-only table, and no None is yielded.  *)
(***************************************************************************)
SchemaKinds == {"drop table", "alter table", "create table"}
DataKinds == {"insert into", "update", "delete from"}

\* name, nullability, native type and auto-increment flag of every column
ColumnSignatures(t) ==
    {<<t.columns[k].name, t.columns[k].nullable, t.columns[k].dbtype, t.columns[k].auto_increment>> :
        k \in 1..Len(t.columns)}

HasSchemaDelta(t1, t2) ==
    \/ ColumnSignatures(t1) # ColumnSignatures(t2)
    \/ KeySignatures(t1) # KeySignatures(t2)

TableNamed(db, n) == db.tables[CHOOSE k \in 1..Len(db.tables) : db.tables[k].name = n]

\* kind and table of the schema statements owed, in the order claimed
SchemaOwed ==
    Concat([k \in 1..Len(db1.tablenames) |->
               LET n == db1.tablenames[k]
               IN IF n \notin Range(db2.tablenames) THEN <<<<"drop table", n>>>>
                  ELSE IF HasSchemaDelta(TableNamed(db1, n), TableNamed(db2, n))
                       THEN <<<<"alter table", n>>>>
                       ELSE <<>>])
    \o Concat([k \in 1..Len(db2.tablenames) |->
                  IF db2.tablenames[k] \notin Range(db1.tablenames)
                  THEN <<<<"create table", db2.tablenames[k]>>>> ELSE <<>>])

\* kind and table of the schema statements yielded so far
SchemaYielded ==
    LET st == SelectSeq(out, LAMBDA e : e.stmt \in SchemaKinds)
    IN [k \in 1..Len(st) |-> <<st[k].stmt, st[k].table>>]

C9_SchemaThenData ==
    /\ \A k \in 1..Len(out) : out[k].stmt \in SchemaKinds \cup DataKinds
    /\ \A p \in 1..Len(out), q \in 1..Len(out) :
          (p < q /\ out[p].stmt \in DataKinds) => out[q].stmt \in DataKinds
    /\ IsPrefix(SchemaYielded, SchemaOwed)
    /\ (\E k \in 1..Len(out) : out[k].stmt \in DataKinds) => SchemaYielded = SchemaOwed
    /\ pc \in {"data", "compare_data", "done", "raised"} => SchemaYielded = SchemaOwed

\* a finished run that yielded a DROP TABLE, an ALTER TABLE, a CREATE TABLE
\* and after them data statements
C9_Witness ==
    /\ pc = "done"
    /\ SchemaKinds \subseteq {out[k].stmt : k \in 1..Len(out)}
    /\ out[Len(out)].stmt \in DataKinds

(***************************************************************************)
(* What a statement does to a database, as the server executes it: the     *)
(* contents of a database are, per table, its column definitions, its keys *)
(* and its rows.                                                           *)
(***************************************************************************)
\* the value a literal denotes
Denoted(lit) ==
    IF lit.lit = "NULL" THEN None ELSE IF lit.lit = "quoted" THEN StrV(lit.v) ELSE IntV(lit.v)

\* a key as the server keeps it: an unnamed primary key is PRIMARY, another
\* unnamed key takes the name of its first column
StoredKey(name, def) ==
    [name |-> IF def.kind = "primary" THEN "PRIMARY" ELSE IF name = "" THEN def.cols[1] ELSE name,
     kind |-> IF def.kind = "" THEN "multiple" ELSE def.kind,
     cols |-> def.cols]

Contents(db) ==
    [n \in Range(db.tablenames) |->
        LET t == TableNamed(db, n)
        IN [cols |-> {render_column(t.columns[k]) : k \in 1..Len(t.columns)},
            keys |-> {[name |-> t.keys[k].name, kind |-> t.keys[k].kind, cols |-> keycols(t.keys[k])] :
                         k \in 1..Len(t.keys)},
            rows |-> Range(db.conn[n])]]

Matches(r, where) == \A k \in 1..Len(where) : r[where[k].col] = Denoted(where[k].val)

Altered(tc, mods) ==
    LET named(kind) == {mods[k].name : k \in {j \in 1..Len(mods) : mods[j].clause = kind}}
        defs(kinds) == {mods[k].def[1] : k \in {j \in 1..Len(mods) : mods[j].clause \in kinds}}
        cols == {c \in tc.cols : c.name \notin named("drop") \cup named("change")}
                  \cup defs({"add", "change"})
        gone == {k \in tc.keys : \/ k.kind = "primary" /\ named("drop primary key") # {}
                                 \/ k.name \in named("drop key")}
        more == {StoredKey(mods[k].name, mods[k].def[1]) :
                    k \in {j \in 1..Len(mods) : mods[j].clause \in {"add key", "add index", "add constraint"}}}
    IN [cols |-> cols,
        keys |-> (tc.keys \ gone) \cup more,
        rows |-> {[c \in {d.name : d \in cols} |-> IF c \in DOMAIN r THEN r[c] ELSE None] :
                     r \in tc.rows}]

Created(mods) ==
    LET colAt == {k \in 1..Len(mods) : "dbtype" \in DOMAIN mods[k]}
    IN [cols |-> {mods[k] : k \in colAt},
        keys |-> {StoredKey("", mods[k]) : k \in (1..Len(mods)) \ colAt},
        rows |-> {}]

Executed(c, st) ==
    IF st.stmt = "drop table" THEN [n \in DOMAIN c \ {st.table} |-> c[n]]
    ELSE IF st.stmt = "create table"
    THEN [n \in DOMAIN c \cup {st.table} |-> IF n = st.table THEN Created(st.mods) ELSE c[n]]
    ELSE IF st.stmt = "alter table" THEN [c EXCEPT ![st.table] = Altered(@, st.mods)]
    ELSE IF st.stmt = "insert into"
    THEN [c EXCEPT ![st.table].rows =
             @ \cup {[n \in Range(st.cols) |->
                        Denoted(st.vals[CHOOSE k \in 1..Len(st.cols) : st.cols[k] = n])]}]
    ELSE IF st.stmt = "delete from"
    THEN [c EXCEPT ![st.table].rows = {r \in @ : ~Matches(r, st.where)}]
    ELSE [c EXCEPT ![st.table].rows =
             {IF Matches(r, st.where)
              THEN [n \in DOMAIN r |->
                       IF \E k \in 1..Len(st.sets) : st.sets[k].col = n
                       THEN Denoted(st.sets[CHOOSE k \in 1..Len(st.sets) : st.sets[k].col = n].val)
                       ELSE r[n]]
              ELSE r : r \in @}]

RECURSIVE ExecutedAll(_, _)
ExecutedAll(c, stmts) ==
    IF stmts = <<>> THEN c ELSE ExecutedAll(Executed(c, Head(stmts)), Tail(stmts))

(***************************************************************************)
(* C1: executing the statements __compare yields, in order, on the source  *)
(* gives a database whose tables, columns, keys and rows are the target's: *)
(* for tables on both sides, tables only on the source and tables only on  *)
(* the target, the rows of the latter included.                            *)
(***************************************************************************)
C1_OutputTurnsSourceIntoTarget ==
    pc = "done" => ExecutedAll(Contents(db1), out) = Contents(db2)

====
